---- MODULE Spec2Model ----
(***************************************************************************)
(* A model of smallsh.c: the prompt loop, the parsing of a command line,   *)
(* the built-ins, fork/exec of a child with its signal disposition and     *)
(* redirections, the background job table and the SIGTSTP handler.         *)
(*                                                                         *)
(* A line is a sequence of characters (one-character strings) without its  *)
(* trailing newline; a token is a non-empty sequence of characters and the *)
(* empty sequence stands for a NULL pointer.  A wait status is the integer *)
(* the kernel hands to waitpid: exit code * 256, or the signal number.     *)
(***************************************************************************)
EXTENDS Integers, Sequences, FiniteSets, TLC

\* ------------------------------------------------------------------------
\* Program constants
\* ------------------------------------------------------------------------
NumSlots == 50
SIGINT == 2
SIGKILL == 9
EXIT_SUCCESS == 0
EXIT_FAILURE == 1

\* ------------------------------------------------------------------------
\* Bounds of the model
\* ------------------------------------------------------------------------
\* children the kernel lets the shell have at once (fork fails with EAGAIN
\* beyond it) on top of the ones present in the initial state
MaxProc == 2

\* tokens in a line given to the parser alone
MaxTokens == 3

NULL == <<>>

\* ------------------------------------------------------------------------
\* Words and input lines
\* ------------------------------------------------------------------------
SP == " "
W_exit == <<"e", "x", "i", "t">>
W_status == <<"s", "t", "a", "t", "u", "s">>
W_cd == <<"c", "d">>
W_ls == <<"l", "s">>
W_yes == <<"y", "e", "s">>
W_lt == <<"<">>
W_gt == <<">">>
W_amp == <<"&">>
W_f == <<"f">>
W_g == <<"g">>

\* the lines the user types (without the newline)
Lines ==
    { <<>>,
      <<"#", "c">>,
      W_exit,
      W_status,
      W_cd,
      W_ls,
      W_ls \o <<SP>> \o W_amp,
      W_ls \o <<SP>> \o W_lt \o <<SP>> \o W_f \o <<SP>> \o W_gt \o <<SP>> \o W_g }

\* the directory the shell is started in, and getenv("HOME")
StartDir == <<"~">>
HomeDir == <<"~">>

\* the decimal digits of getpid() in the shell
ShellPidDigits == <<"4", "2">>

\* ------------------------------------------------------------------------
\* Wait status macros (sys/wait.h, Linux encoding)
\* ------------------------------------------------------------------------
ExitedStatus(code) == (code % 256) * 256
SignaledStatus(sig) == sig
WTERMSIG(status) == status % 128
WIFEXITED(status) == WTERMSIG(status) = 0
WEXITSTATUS(status) == (status \div 256) % 256
WIFSIGNALED(status) == WTERMSIG(status) # 0 /\ WTERMSIG(status) # 127

\* ------------------------------------------------------------------------
\* getCommandLineArguments: tokenizing, $$ expansion, operator scan
\* ------------------------------------------------------------------------
\* strtok_r(.., " ", ..) applied until it returns NULL: the maximal runs of
\* characters other than the delimiter
RECURSIVE TokenizeFrom(_, _, _)
TokenizeFrom(line, i, cur) ==
    IF i > Len(line)
    THEN IF cur = <<>> THEN <<>> ELSE <<cur>>
    ELSE IF line[i] = SP
         THEN IF cur = <<>>
              THEN TokenizeFrom(line, i + 1, <<>>)
              ELSE <<cur>> \o TokenizeFrom(line, i + 1, <<>>)
         ELSE TokenizeFrom(line, i + 1, Append(cur, line[i]))

Tokenize(line) == TokenizeFrom(line, 1, <<>>)

\* pidReplacement: x walks the string (0-based in the code, x + 1 here);
\* at "$$" the two characters are replaced by the digits of the pid and x
\* moves on by one in the rewritten string
RECURSIVE pidReplacementFrom(_, _)
pidReplacementFrom(command, x) ==
    IF x > Len(command)
    THEN command
    ELSE IF command[x] = "$" /\ x + 1 <= Len(command) /\ command[x + 1] = "$"
         THEN pidReplacementFrom(
                  SubSeq(command, 1, x - 1) \o ShellPidDigits
                      \o SubSeq(command, x + 2, Len(command)),
                  x + 1)
         ELSE pidReplacementFrom(command, x + 1)

pidReplacement(command) == pidReplacementFrom(command, 1)

\* the first token is copied as it is, the others go through pidReplacement
ExpandTokens(toks) ==
    [k \in 1..Len(toks) |-> IF k = 1 THEN toks[k] ELSE pidReplacement(toks[k])]

\* cmdLineArgs[x] for a 0-based x; NULL past the last token
ArgAt(args, x) == IF x + 1 <= Len(args) THEN args[x + 1] ELSE NULL

\* a faulty variant of the test below: an "&" anywhere is the marker
IsBackgroundMarker_Anywhere(args, x) == ArgAt(args, x) = W_amp

\* line 233: cmdLineArgs[x] is "&" and nothing follows it
IsBackgroundMarker(args, x) == ArgAt(args, x) = W_amp /\ ArgAt(args, x + 1) = NULL

\* the scan for "<", ">" and a final "&"; x and IOstart are the code's
\* 0-based indices.  A "<" or ">" that is the last token makes the code copy
\* from the NULL pointer that follows it (strlen(NULL) at lines 216, 228):
\* the shell dies there, which crash records
RECURSIVE ScanFrom(_, _)
ScanFrom(s, x) ==
    IF x >= s.cmdNumber
    THEN s
    ELSE IF ArgAt(s.args, x) \in {W_lt, W_gt} /\ ArgAt(s.args, x + 1) = NULL
         THEN [s EXCEPT !.crash = TRUE]
    ELSE IF ArgAt(s.args, x) = W_lt
         THEN ScanFrom([s EXCEPT
                  !.IOstart = IF s.IOstart = 0 \/ s.IOstart > x THEN x ELSE @,
                  !.inputFile = ArgAt(s.args, x + 1)], x + 1)
         ELSE IF ArgAt(s.args, x) = W_gt
              THEN ScanFrom([s EXCEPT
                       !.IOstart = IF s.IOstart = 0 \/ s.IOstart > x THEN x ELSE @,
                       !.outputFile = ArgAt(s.args, x + 1)], x + 1)
              ELSE IF IsBackgroundMarker(s.args, x)
                   THEN ScanFrom([s EXCEPT
                            !.bgFlag = 1,
                            !.args = [@ EXCEPT ![x + 1] = NULL]], x + 1)
                   ELSE ScanFrom(s, x + 1)

\* cmdLineArgs[x] = '\0' for every x from IOstart on, when IOstart is not 0
ClearFromIOstart(s) ==
    IF s.IOstart # 0
    THEN [s EXCEPT !.args = [k \in 1..Len(s.args) |->
                                 IF k - 1 >= s.IOstart THEN NULL ELSE s.args[k]]]
    ELSE s

\* what execvp sees of cmdLineArgs: the entries before the first NULL
RECURSIVE ExecVector(_)
ExecVector(args) ==
    IF args = <<>> \/ Head(args) = NULL
    THEN <<>>
    ELSE <<Head(args)>> \o ExecVector(Tail(args))

\* lines 186-240 on a line: the tokens, expanded, then the scan
Scan(line) ==
    LET toks == ExpandTokens(Tokenize(line))
    IN  ScanFrom([args |-> toks, cmdNumber |-> Len(toks), IOstart |-> 0,
                  inputFile |-> NULL, outputFile |-> NULL, bgFlag |-> 0,
                  crash |-> FALSE], 0)

\* the command the shell holds when getCommandLineArguments returns
ParseLine(line) ==
    LET s == ClearFromIOstart(Scan(line))
    IN [args |-> ExecVector(s.args), inputFile |-> s.inputFile,
        outputFile |-> s.outputFile, bgFlag |-> s.bgFlag]

\* the shell dies of a NULL pointer while it parses the line: a line of
\* blanks only has no first token (strlen(token) at line 188), and a "<" or
\* ">" with nothing after it
ParseCrashes(line) == Tokenize(line) = <<>> \/ Scan(line).crash

\* ... or right after: main compares cmdLineArgs[0] with "exit" (line 476),
\* and cmdLineArgs[0] is NULL when the line is a lone "&"
Segfaults(line) == ParseCrashes(line) \/ ParseLine(line).args = <<>>

\* commandLineArgumentReset
NoCommand == [args |-> <<>>, inputFile |-> NULL, outputFile |-> NULL, bgFlag |-> 0]

\* the parse of each line the user types
Parsed == [line \in Lines |-> ParseLine(line)]

\* the lines the user types that the shell does not survive
SegfaultLines == {line \in Lines : Segfaults(line)}

\* a faulty variant of the test below: a comment is not recognised
ValidInput_NonEmpty(line) == Len(line) >= 1

\* strlen(userInput) > 1 && userInput[0] != '#', the newline not counted
ValidInput(line) == Len(line) >= 1 /\ line[1] # "#"



\* ------------------------------------------------------------------------
\* What the shell and its children write to the terminal
\* ------------------------------------------------------------------------
Msg(m, p, v) == [msg |-> m, pid |-> p, val |-> v]
PromptMsg == Msg(": ", 0, 0)
EnterMessage == Msg("Entering foreground-only mode (& is now ignored)", 0, 0)
ExitMessage == Msg("Exiting foreground-only mode", 0, 0)
BackgroundPidMsg(p) == Msg("Background PID is", p, 0)
BgExitMsg(p, v) == Msg("Background pid is done: Exit value", p, v)
BgSignalMsg(p, v) == Msg("Background pid is done: Terminated by signal", p, v)
ExitValueMsg(v) == Msg("exit value", 0, v)
TerminatedMsg(v) == Msg("terminated by signal", 0, v)
ForkFailedMsg == Msg("fork() failed!", 0, 0)

\* ------------------------------------------------------------------------
\* State
\* ------------------------------------------------------------------------
VARIABLES
    pc,           \* where main is: "prompt" (top of the input loop), "read"
                  \* (blocked in fgets), "parent" (fork has returned in the
                  \* parent), "wait" (blocked in waitpid for the child),
                  \* "done" (the shell process has ended)
    fgFlag,       \* the global fgFlag
    exitStatus,   \* shell->exitStatus
    childPID,     \* shell->childPID
    bgProcesses,  \* shell->bgProcesses, slot -> pid, 0 when free
    cmd,          \* cmdLineArgs (as execvp sees it), inputFile, outputFile, bgFlag
    cwd,          \* working directory of the shell
    shellExit,    \* exit code of the shell process, -1 while it runs
    procs,        \* the children that exist (running, or ended and not waited for)
    nprocLimit,   \* how many children the kernel allows the shell at once
    out,          \* what the last step wrote to the terminal
    sigLog,       \* history: number of SIGTSTP deliveries mod 2, last two notices
    killSent,     \* history: pids the shell has sent SIGKILL
    userInput,    \* history: <<line>> when fgets has read that line from the
                  \* user in the step just taken, else <<>>
    childCalls,   \* history: the calls the child made between fork and its
                  \* program, when the step just taken forked it, else <<>>
    lastFg        \* history: the status of the child run in the foreground
                  \* that ended last, 0 as long as none has ended

vars == <<pc, fgFlag, exitStatus, childPID, bgProcesses, cmd, cwd, shellExit,
          procs, nprocLimit, out, sigLog, killSent, userInput, childCalls, lastFg>>

Slots == 1..NumSlots

\* the shell's own SIGINT disposition: set to SIG_IGN in main before the
\* loop and never changed afterwards
ShellSigint == "SIG_IGN"

\* shellSetUp, the sigaction calls of main, and no child yet
InitShell ==
    /\ pc = "prompt"
    /\ fgFlag = 0
    /\ exitStatus = 0
    /\ childPID = -5
    /\ cmd = NoCommand
    /\ cwd = StartDir
    /\ shellExit = -1
    /\ out = <<>>
    /\ sigLog = [n |-> 0, notices |-> <<>>]
    /\ killSent = {}
    /\ userInput = <<>>
    /\ childCalls = <<>>
    /\ lastFg = 0

Init ==
    /\ InitShell
    /\ bgProcesses = [x \in Slots |-> 0]
    /\ procs = <<>>
    /\ nprocLimit = MaxProc

\* a step that is no return of fgets and no fork
NothingRead == userInput' = <<>> /\ childCalls' = <<>>

\* the line fgets has read in a step that goes on from it: none when the
\* call was interrupted
LineRead(line, eintr) == IF eintr THEN <<>> ELSE <<line>>

\* a step that goes on from fgets and does not fork
Read(line, eintr) == userInput' = LineRead(line, eintr) /\ childCalls' = <<>>

\* ------------------------------------------------------------------------
\* handle_SIGTSTP
\* ------------------------------------------------------------------------
\* a faulty variant of the toggle below: the flag is set and never cleared
handle_SIGTSTP_flag_SetOnly(flag) == 1

handle_SIGTSTP_flag(flag) == IF flag = 0 THEN 1 ELSE 0

handle_SIGTSTP_write(flag) == IF flag = 0 THEN <<EnterMessage>> ELSE <<ExitMessage>>

LastTwo(s) == IF Len(s) <= 2 THEN s ELSE SubSeq(s, Len(s) - 1, Len(s))

\* the handler runs once: the flag and the terminal, and the history of it;
\* after is what the interrupted flow prints next in the same step
Handler(after) ==
    /\ fgFlag' = handle_SIGTSTP_flag(fgFlag)
    /\ out' = handle_SIGTSTP_write(fgFlag) \o after
    /\ sigLog' = [n |-> (sigLog.n + 1) % 2,
                  notices |-> LastTwo(sigLog.notices \o handle_SIGTSTP_write(fgFlag))]

\* SIGTSTP between two statements of the main flow (at "wait": before
\* waitpid is entered)
SigtstpAtStatement ==
    /\ pc \in {"prompt", "parent", "wait"}
    /\ Handler(<<>>)
    /\ NothingRead
    /\ UNCHANGED <<pc, exitStatus, childPID, bgProcesses, cmd, cwd, shellExit,
                   procs, nprocLimit, killSent, lastFg>>

\* ------------------------------------------------------------------------
\* checkBackgroundProcessTermination
\* ------------------------------------------------------------------------
\* waitpid(pid, &childStatus, WNOHANG): the pid when the child has ended,
\* 0 when it still runs, -1 (ECHILD) when there is no such child
WaitNoHang(pid) ==
    IF pid \notin DOMAIN procs THEN -1
    ELSE IF procs[pid].st = "zombie" THEN pid ELSE 0

\* a faulty variant of the test below: only a failed call counts as "still
\* running"
Terminated_UnlessError(pid) == WaitNoHang(pid) # -1

\* line 133: is the slot's process reported and the slot cleared
Terminated(pid) == WaitNoHang(pid) # 0

\* the slots the loop clears
ReapedSlots == {x \in Slots : bgProcesses[x] # 0 /\ Terminated(bgProcesses[x])}

\* childStatus after the call; junk is what the variable holds when waitpid
\* failed and wrote nothing
ReapStatus(pid, junk) == IF pid \in DOMAIN procs THEN procs[pid].status ELSE junk

\* a faulty variant of the report below: the signal branch is missing
ReapMsg_ExitOnly(pid, status) == BgExitMsg(pid, WEXITSTATUS(status))

\* lines 137-144
ReapMsg(pid, status) ==
    IF WIFEXITED(status)
    THEN BgExitMsg(pid, WEXITSTATUS(status))
    ELSE BgSignalMsg(pid, WTERMSIG(status))

\* the lines printed by the loop from slot x on, in slot order
RECURSIVE ReapReports(_, _, _)
ReapReports(x, reaped, junk) ==
    IF x > NumSlots
    THEN <<>>
    ELSE IF x \in reaped
         THEN <<ReapMsg(bgProcesses[x], ReapStatus(bgProcesses[x], junk))>>
                  \o ReapReports(x + 1, reaped, junk)
         ELSE ReapReports(x + 1, reaped, junk)

\* line 146 for the slots of S
ClearSlots(table, S) == [x \in Slots |-> IF x \in S THEN 0 ELSE table[x]]

Remove(f, S) == [p \in DOMAIN f \ S |-> f[p]]

JunkStatuses == {0, SignaledStatus(SIGKILL)}

\* lines 167-169: the reap loop, then the prompt
Prompt ==
    /\ pc = "prompt"
    /\ \E junk \in JunkStatuses :
           out' = ReapReports(1, ReapedSlots, junk) \o <<PromptMsg>>
    /\ bgProcesses' = ClearSlots(bgProcesses, ReapedSlots)
    /\ procs' = Remove(procs, {bgProcesses[x] : x \in ReapedSlots})
    /\ pc' = "read"
    /\ NothingRead
    /\ UNCHANGED <<fgFlag, exitStatus, childPID, cmd, cwd, shellExit,
                   nprocLimit, sigLog, killSent, lastFg>>

\* ------------------------------------------------------------------------
\* fgets, the rest of getCommandLineArguments and the dispatch in main
\* ------------------------------------------------------------------------
\* fgets returns in one of two ways.  eintr = FALSE: the user has typed line.
\* eintr = TRUE: SIGTSTP arrived while fgets was blocked in read; the handler
\* ran, read failed with EINTR (sa_flags = 0, no SA_RESTART) and fgets
\* returned NULL without writing userInput, so that line is whatever the
\* array held.  after is what the step prints next.
FgetsReturns(eintr, after) ==
    /\ pc = "read"
    /\ IF eintr
       THEN Handler(after)
       ELSE /\ out' = after
            /\ UNCHANGED <<fgFlag, sigLog>>

\* fgFlag once fgets has returned
FlagAfter(eintr) == IF eintr THEN handle_SIGTSTP_flag(fgFlag) ELSE fgFlag

\* an empty line or a comment: back to the top of the input loop
Reprompt(line, eintr) ==
    /\ ~ValidInput(line)
    /\ FgetsReturns(eintr, <<>>)
    /\ Read(line, eintr)
    /\ pc' = "prompt"
    /\ UNCHANGED <<exitStatus, childPID, bgProcesses, cmd, cwd, shellExit,
                   procs, nprocLimit, killSent, lastFg>>

\* a line that gives main a command: cmdLineArgs[0] is a token
Runs(line) == ValidInput(line) /\ line \notin SegfaultLines

\* a child that has ended: what is left of it until it is waited for is its
\* status; its descriptors are closed and it takes no signal any more
Ended(c, status) ==
    [c EXCEPT !.st = "zombie", !.status = status, !.sigint = "none",
              !.stdin = "closed", !.stdout = "closed"]

\* kill(pid, SIGKILL) on the processes of S: a process that has not ended
\* yet ends, killed by the signal
KillAll(S) ==
    [p \in DOMAIN procs |->
        IF p \in S /\ procs[p].st # "zombie"
        THEN Ended(procs[p], SignaledStatus(SIGKILL))
        ELSE procs[p]]

\* a faulty variant of the loop below: it stops after the first slot
KillTargets_FirstSlot(table) == {table[1]} \ {0}

\* the pids exitSmallShell passes to kill
KillTargets(table) == {table[x] : x \in Slots} \ {0}

TablePids == {bgProcesses[x] : x \in Slots} \ {0}

\* "exit": exitSmallShell, commandLineArgumentReset, the loop ends, return
DoExit(line, eintr) ==
    /\ Runs(line)
    /\ Parsed[line].args[1] = W_exit
    /\ FgetsReturns(eintr, <<>>)
    /\ procs' = KillAll(KillTargets(bgProcesses))
    /\ killSent' = killSent \cup KillTargets(bgProcesses)
    /\ shellExit' = EXIT_SUCCESS
    /\ pc' = "done"
    /\ Read(line, eintr)
    /\ UNCHANGED <<exitStatus, childPID, bgProcesses, cmd, cwd, nprocLimit, lastFg>>

\* a faulty variant of the report below: the signal branch is missing
StatusLine_ExitOnly(status) == ExitValueMsg(WEXITSTATUS(status))

\* printShellStatus
StatusLine(status) ==
    IF status = 0 THEN ExitValueMsg(0)
    ELSE IF WIFEXITED(status) THEN ExitValueMsg(WEXITSTATUS(status))
    ELSE TerminatedMsg(WTERMSIG(status))

\* "status"
DoStatus(line, eintr) ==
    /\ Runs(line)
    /\ Parsed[line].args[1] = W_status
    /\ FgetsReturns(eintr, <<StatusLine(exitStatus)>>)
    /\ pc' = "prompt"
    /\ Read(line, eintr)
    /\ UNCHANGED <<exitStatus, childPID, bgProcesses, cmd, cwd, shellExit,
                   procs, nprocLimit, killSent, lastFg>>

\* "cd": changeShellDirectory, to the first argument or to $HOME
DoCd(line, eintr) ==
    /\ Runs(line)
    /\ Parsed[line].args[1] = W_cd
    /\ FgetsReturns(eintr, <<>>)
    /\ cwd' = IF Len(Parsed[line].args) >= 2 THEN Parsed[line].args[2] ELSE HomeDir
    /\ pc' = "prompt"
    /\ Read(line, eintr)
    /\ UNCHANGED <<exitStatus, childPID, bgProcesses, cmd, shellExit,
                   procs, nprocLimit, killSent, lastFg>>

\* ------------------------------------------------------------------------
\* createNewProcess, the child's branch (lines 346-417)
\* ------------------------------------------------------------------------
CannotOpenMsg == Msg("Cannot open for input", 0, 0)
ExecFailedMsg == Msg("perror(cmdLineArgs[0])", 0, 0)

\* line 350: SIGINT goes back to its default when the child sees itself in
\* the foreground; otherwise it stays as inherited from the shell
ChildSigint(bgFlag, flag) == IF bgFlag = 0 \/ flag = 1 THEN "SIG_DFL" ELSE ShellSigint

\* lines 356 and 385: is the descriptor redirected at all
Redirects(file, bgFlag) == file # NULL \/ bgFlag = 1

\* lines 363-366 and 391-394: what is opened for it
RedirectTarget(file) == IF file # NULL THEN "file" ELSE "/dev/null"

\* the child from its first statement to execvp.  It works on its own copy
\* of the shell's memory as it was at fork: c is that copy of the command and
\* flag that copy of fgFlag.  inOk, outOk: can the named file be opened;
\* execOk: does execvp find and start the program.  A descriptor that is not
\* redirected stays the shell's ("terminal").
ChildAfterSetup(c, flag, inOk, outOk, execOk) ==
    LET fdin == IF Redirects(c.inputFile, c.bgFlag)
                THEN RedirectTarget(c.inputFile) ELSE "terminal"
        fdout == IF Redirects(c.outputFile, c.bgFlag)
                 THEN RedirectTarget(c.outputFile) ELSE "terminal"
        child == [st |-> "running", prog |-> c.args[1],
                  sigint |-> ChildSigint(c.bgFlag, flag),
                  stdin |-> fdin, stdout |-> fdout, status |-> 0, role |-> "new"]
    IN  IF c.inputFile # NULL /\ ~inOk
        THEN Ended(child, ExitedStatus(1))
        ELSE IF c.outputFile # NULL /\ ~outOk
        THEN Ended(child, ExitedStatus(1))
        ELSE IF ~execOk
        THEN Ended(child, ExitedStatus(EXIT_FAILURE))
        ELSE child

\* a faulty variant of the calls below: no exit after a call that fails
ChildCalls_NoEarlyExit(c, inOk, outOk, execOk) ==
    LET Open(fd, file, ok) ==
            IF Redirects(file, c.bgFlag)
            THEN <<[call |-> "open", fd |-> fd, target |-> RedirectTarget(file),
                    ok |-> (file = NULL \/ ok)]>>
            ELSE <<>>
    IN  Open(1, c.outputFile, outOk)
            \o <<[call |-> "execvp", fd |-> -1, target |-> "program", ok |-> execOk]>>
            \o Open(0, c.inputFile, inOk)

\* the calls of lines 364-413 the child makes, in order, each with its
\* descriptor, what it is applied to and whether it succeeds; exit follows a
\* call that fails
ChildCalls(c, inOk, outOk, execOk) ==
    LET Open(fd, file, ok) ==
            IF Redirects(file, c.bgFlag)
            THEN <<[call |-> "open", fd |-> fd, target |-> RedirectTarget(file),
                    ok |-> (file = NULL \/ ok)]>>
            ELSE <<>>
        Exec == <<[call |-> "execvp", fd |-> -1, target |-> "program", ok |-> execOk]>>
    IN  IF c.inputFile # NULL /\ ~inOk
        THEN Open(0, c.inputFile, inOk)
        ELSE IF c.outputFile # NULL /\ ~outOk
        THEN Open(0, c.inputFile, inOk) \o Open(1, c.outputFile, outOk)
        ELSE Open(0, c.inputFile, inOk) \o Open(1, c.outputFile, outOk) \o Exec

ChildSetupWrites(c, inOk, outOk, execOk) ==
    IF c.inputFile # NULL /\ ~inOk THEN <<CannotOpenMsg>>
    ELSE IF c.outputFile # NULL /\ ~outOk THEN <<CannotOpenMsg>>
    ELSE IF ~execOk THEN <<ExecFailedMsg>>
    ELSE <<>>

\* ------------------------------------------------------------------------
\* createNewProcess, fork and the parent's branch
\* ------------------------------------------------------------------------
IsExternal(c) == c.args[1] \notin {W_exit, W_status, W_cd}

\* the pid the kernel gives the new child: one no existing child has
NewPid == CHOOSE p \in 1..(Cardinality(DOMAIN procs) + 1) : p \notin DOMAIN procs

Extend(f, p, v) == [q \in DOMAIN f \cup {p} |-> IF q = p THEN v ELSE f[q]]

\* any other command: fork() returns the child's pid in the parent.  What the
\* child does up to execvp depends only on its copy of the memory, so it is
\* part of this step
Fork(line, eintr) ==
    /\ Runs(line)
    /\ IsExternal(Parsed[line])
    /\ Cardinality(DOMAIN procs) < nprocLimit
    /\ cmd' = Parsed[line]
    /\ childPID' = NewPid
    /\ \E inOk, outOk, execOk \in BOOLEAN :
           /\ procs' = Extend(procs, NewPid,
                  ChildAfterSetup(Parsed[line], FlagAfter(eintr), inOk, outOk, execOk))
           /\ FgetsReturns(eintr, ChildSetupWrites(Parsed[line], inOk, outOk, execOk))
           /\ childCalls' = ChildCalls(Parsed[line], inOk, outOk, execOk)
    /\ userInput' = LineRead(line, eintr)
    /\ pc' = "parent"
    /\ UNCHANGED <<exitStatus, bgProcesses, cwd, shellExit, nprocLimit, killSent,
                   lastFg>>

\* a faulty variant of the exit code below
ForkFailedExit_Success == EXIT_SUCCESS

\* line 344: exit(1)
ForkFailedExit == 1

\* fork() returns -1 (EAGAIN, the limit on processes is reached): perror, exit(1)
ForkFail(line, eintr) ==
    /\ Runs(line)
    /\ IsExternal(Parsed[line])
    /\ Cardinality(DOMAIN procs) >= nprocLimit
    /\ cmd' = Parsed[line]
    /\ childPID' = -1
    /\ FgetsReturns(eintr, <<ForkFailedMsg>>)
    /\ shellExit' = ForkFailedExit
    /\ pc' = "done"
    /\ Read(line, eintr)
    /\ UNCHANGED <<exitStatus, bgProcesses, cwd, procs, nprocLimit, killSent, lastFg>>

\* a faulty variant of the test below: the mode flag is not consulted
ParentRunsInBackground_NoMode(bgFlag, flag) == bgFlag = 1

\* line 423, the parent's test of the two flags
ParentRunsInBackground(bgFlag, flag) == bgFlag = 1 /\ flag = 0

\* lines 426-431: the pid goes to the first slot that holds 0, if there is one
Register(table, pid) ==
    IF \E x \in Slots : table[x] = 0
    THEN [table EXCEPT ![CHOOSE x \in Slots :
                             table[x] = 0 /\ \A y \in 1..(x - 1) : table[y] # 0] = pid]
    ELSE table

\* line 433
BackgroundNotice(table, pid) == <<BackgroundPidMsg(pid)>>

\* the parent's branch for a background command, then fflush and
\* commandLineArgumentReset in main
ParentBackground ==
    /\ pc = "parent"
    /\ ParentRunsInBackground(cmd.bgFlag, fgFlag)
    /\ bgProcesses' = Register(bgProcesses, childPID)
    /\ out' = BackgroundNotice(bgProcesses, childPID)
    /\ procs' = [procs EXCEPT ![childPID].role = "bg"]
    /\ cmd' = NoCommand
    /\ pc' = "prompt"
    /\ NothingRead
    /\ UNCHANGED <<fgFlag, exitStatus, childPID, cwd, shellExit, nprocLimit,
                   sigLog, killSent, lastFg>>

\* the parent's other branch: it enters waitpid(childPID, &exitStatus, 0)
ParentForeground ==
    /\ pc = "parent"
    /\ ~ParentRunsInBackground(cmd.bgFlag, fgFlag)
    /\ procs' = [procs EXCEPT ![childPID].role = "fg"]
    /\ pc' = "wait"
    /\ out' = <<>>
    /\ NothingRead
    /\ lastFg' = IF procs[childPID].st = "zombie"
                 THEN procs[childPID].status ELSE lastFg
    /\ UNCHANGED <<fgFlag, exitStatus, childPID, bgProcesses, cmd, cwd, shellExit,
                   nprocLimit, sigLog, killSent>>

\* lines 443-445 with the value exitStatus has after waitpid
AfterWait(status) == IF WIFSIGNALED(status) THEN <<TerminatedMsg(WTERMSIG(status))>> ELSE <<>>

\* waitpid returns the child's pid: the child has ended, its status is stored
WaitReturns ==
    /\ pc = "wait"
    /\ childPID \in DOMAIN procs
    /\ procs[childPID].st = "zombie"
    /\ exitStatus' = procs[childPID].status
    /\ out' = AfterWait(procs[childPID].status)
    /\ procs' = Remove(procs, {childPID})
    /\ cmd' = NoCommand
    /\ pc' = "prompt"
    /\ NothingRead
    /\ UNCHANGED <<fgFlag, childPID, bgProcesses, cwd, shellExit, nprocLimit,
                   sigLog, killSent, lastFg>>

\* SIGTSTP while the shell is blocked in waitpid, the child still running:
\* the handler runs and waitpid fails with EINTR (sa_flags = 0, no
\* SA_RESTART) without writing exitStatus; the shell goes on with the old
\* value and back to the prompt
SigtstpAtWait ==
    /\ pc = "wait"
    /\ procs[childPID].st = "running"
    /\ Handler(AfterWait(exitStatus))
    /\ cmd' = NoCommand
    /\ pc' = "prompt"
    /\ NothingRead
    /\ UNCHANGED <<exitStatus, childPID, bgProcesses, cwd, shellExit, procs,
                   nprocLimit, killSent, lastFg>>

\* ------------------------------------------------------------------------
\* The programs the children run
\* ------------------------------------------------------------------------
ExitCodes == {0}

\* "yes" never ends by itself; the other programs end with some exit code.
\* The children are followed as long as the shell runs
ChildExits(p) ==
    /\ pc \notin {"done", "crashed"}
    /\ procs[p].st = "running"
    /\ procs[p].prog # W_yes
    /\ \E code \in ExitCodes :
           /\ procs' = [procs EXCEPT ![p] = Ended(@, ExitedStatus(code))]
           /\ lastFg' = IF procs[p].role = "fg" THEN ExitedStatus(code) ELSE lastFg
    /\ out' = <<>>
    /\ NothingRead
    /\ UNCHANGED <<pc, fgFlag, exitStatus, childPID, bgProcesses, cmd, cwd,
                   shellExit, nprocLimit, sigLog, killSent>>

\* SIGINT reaches a child in which it has its default disposition
ChildInterrupted(p) ==
    /\ pc \notin {"done", "crashed"}
    /\ procs[p].st = "running"
    /\ procs[p].sigint = "SIG_DFL"
    /\ procs' = [procs EXCEPT ![p] = Ended(@, SignaledStatus(SIGINT))]
    /\ lastFg' = IF procs[p].role = "fg" THEN SignaledStatus(SIGINT) ELSE lastFg
    /\ out' = <<>>
    /\ NothingRead
    /\ UNCHANGED <<pc, fgFlag, exitStatus, childPID, bgProcesses, cmd, cwd,
                   shellExit, nprocLimit, sigLog, killSent>>

\* ------------------------------------------------------------------------
\* The specification
\* ------------------------------------------------------------------------
Next ==
    \/ Prompt
    \/ \E line \in Lines, eintr \in BOOLEAN : Reprompt(line, eintr)
    \/ \E line \in Lines, eintr \in BOOLEAN : DoExit(line, eintr)
    \/ \E line \in Lines, eintr \in BOOLEAN : DoStatus(line, eintr)
    \/ \E line \in Lines, eintr \in BOOLEAN : DoCd(line, eintr)
    \/ \E line \in Lines, eintr \in BOOLEAN : Fork(line, eintr)
    \/ \E line \in Lines, eintr \in BOOLEAN : ForkFail(line, eintr)
    \/ ParentBackground
    \/ ParentForeground
    \/ WaitReturns
    \/ SigtstpAtStatement
    \/ SigtstpAtWait
    \/ \E p \in DOMAIN procs : ChildExits(p)
    \/ \E p \in DOMAIN procs : ChildInterrupted(p)

Spec == Init /\ [][Next]_vars

\* The shell after NumSlots - 1 commands "yes &" typed in normal mode: every
\* slot but the last holds a running background child
Resident ==
    [st |-> "running", prog |-> W_yes, sigint |-> ShellSigint,
     stdin |-> "/dev/null", stdout |-> "/dev/null", status |-> 0, role |-> "bg"]

InitFull ==
    /\ InitShell
    /\ bgProcesses = [x \in Slots |-> IF x < NumSlots THEN x ELSE 0]
    /\ procs = [p \in 1..(NumSlots - 1) |-> Resident]
    /\ nprocLimit = NumSlots - 1 + MaxProc

SpecFull == InitFull /\ [][Next]_vars

\* ------------------------------------------------------------------------
\* getCommandLineArguments alone, on every line of up to MaxTokens words
\* ------------------------------------------------------------------------
W_pid == <<"$", "$">>
W_pid3 == <<"$", "$", "$">>
W_apidbpid == <<"a", "$", "$", "b", "$", "$">>

ParseWords == {W_ls, W_f, W_lt, W_gt, W_amp, W_pid, W_pid3, W_apidbpid}

\* the words of a sequence with one blank between them
RECURSIVE Join(_)
Join(words) ==
    IF Len(words) = 0 THEN <<>>
    ELSE IF Len(words) = 1 THEN words[1]
    ELSE words[1] \o <<SP>> \o Join(Tail(words))

\* lines with no word, and with blanks at other places than between words
OddLines ==
    { <<>>, <<"#">>, <<"#", SP, "&">>, <<SP>>, <<SP, SP>>,
      <<SP>> \o W_ls, W_ls \o <<SP>>, W_ls \o <<SP, SP>> \o W_amp }

ParseLines ==
    {Join(words) : words \in UNION {[1..n -> ParseWords] : n \in 1..MaxTokens}}
        \cup OddLines

\* fgets has read line and the rest of getCommandLineArguments runs to its
\* end: main holds the command
Parse(line) ==
    /\ pc = "read"
    /\ ValidInput(line)
    /\ ~ParseCrashes(line)
    /\ cmd' = ParseLine(line)
    /\ userInput' = <<line>>
    /\ childCalls' = <<>>
    /\ out' = <<>>
    /\ pc' = "parsed"
    /\ UNCHANGED <<fgFlag, exitStatus, childPID, bgProcesses, cwd, shellExit,
                   procs, nprocLimit, sigLog, killSent, lastFg>>

\* fgets has read line and the shell dies in the rest of
\* getCommandLineArguments, killed by SIGSEGV
ParseDies(line) ==
    /\ pc = "read"
    /\ ValidInput(line)
    /\ ParseCrashes(line)
    /\ userInput' = <<line>>
    /\ childCalls' = <<>>
    /\ out' = <<>>
    /\ pc' = "crashed"
    /\ UNCHANGED <<fgFlag, exitStatus, childPID, bgProcesses, cmd, cwd, shellExit,
                   procs, nprocLimit, sigLog, killSent, lastFg>>

\* main with the command: it dies at line 476 when cmdLineArgs[0] is NULL;
\* whatever it does with another command, commandLineArgumentReset follows
Dispatch ==
    /\ pc = "parsed"
    /\ IF cmd.args = <<>>
       THEN pc' = "crashed" /\ UNCHANGED cmd
       ELSE pc' = "prompt" /\ cmd' = NoCommand
    /\ out' = <<>>
    /\ NothingRead
    /\ UNCHANGED <<fgFlag, exitStatus, childPID, bgProcesses, cwd, shellExit,
                   procs, nprocLimit, sigLog, killSent, lastFg>>

NextParse ==
    \/ Prompt
    \/ \E line \in ParseLines : Reprompt(line, FALSE)
    \/ \E line \in ParseLines : Parse(line)
    \/ \E line \in ParseLines : ParseDies(line)
    \/ Dispatch

SpecParse == Init /\ [][NextParse]_vars


\* ------------------------------------------------------------------------
\* Properties
\* ------------------------------------------------------------------------
Range(seq) == {seq[i] : i \in 1..Len(seq)}

FreeSlots == {x \in Slots : bgProcesses[x] = 0}

\* the step in which the parent acts on fork's result: it leaves "parent"
ParentDecides == pc = "parent" /\ pc' # "parent"

\* the children that exist and have not ended
Running == {p \in DOMAIN procs : procs[p].st = "running"}

\* C1: a command dispatched with background requested: when fgFlag is 0 at
\* the parent's test and a slot is free, the parent stores the child's pid in
\* a free slot, prints "Background PID is <pid>" and is back at the prompt
\* with the child not waited for; when fgFlag is 1 the table is unchanged, no
\* background notice is printed and the parent blocks in waitpid for the child.
C1_BackgroundDispatch ==
    [][(ParentDecides /\ cmd.bgFlag = 1) =>
          /\ (fgFlag = 0 /\ FreeSlots # {}) =>
                 /\ \E x \in FreeSlots :
                        bgProcesses' = [bgProcesses EXCEPT ![x] = childPID]
                 /\ out' = <<BackgroundPidMsg(childPID)>>
                 /\ pc' = "prompt"
                 /\ childPID \in DOMAIN procs'
                 /\ exitStatus' = exitStatus
          /\ fgFlag = 1 =>
                 /\ bgProcesses' = bgProcesses
                 /\ BackgroundPidMsg(childPID) \notin Range(out')
                 /\ pc' = "wait"
                 /\ childPID' = childPID]_vars

\* a downgraded background command is being waited for while an earlier
\* background command sits in the table
C1_Witness ==
    /\ pc = "wait"
    /\ cmd.bgFlag = 1
    /\ fgFlag = 1
    /\ \E x \in Slots : bgProcesses[x] # 0 /\ bgProcesses[x] # childPID

\* C2: the shell leaves the wait for a foreground child only when that child
\* has ended, and exitStatus is then that child's status.
C2_ForegroundWait ==
    [][(pc = "wait" /\ pc' # "wait") =>
          /\ childPID \in DOMAIN procs
          /\ procs[childPID].st = "zombie"
          /\ exitStatus' = procs[childPID].status]_vars

\* C3: at most one foreground child exists; at a prompt, and when another
\* child has been forked, no child the shell ran in the foreground is still
\* running; the shell never blocks on a child it has put in the table.
C3_OneForegroundChild ==
    /\ Cardinality({p \in Running : procs[p].role = "fg"}) <= 1
    /\ pc \in {"prompt", "read", "parent"} =>
           \A p \in Running : procs[p].role # "fg"
    /\ pc = "wait" =>
           /\ childPID \notin {bgProcesses[x] : x \in Slots}
           /\ procs[childPID].role # "bg"

\* C4: the shell ignores SIGINT; a child that has started its program has
\* SIGINT at its default exactly when the parent blocks on it, and every
\* child in the table ignores SIGINT.
C4_SigintAgreement ==
    /\ ShellSigint = "SIG_IGN"
    /\ \A p \in Running :
           /\ procs[p].role = "fg" => procs[p].sigint = "SIG_DFL"
           /\ procs[p].role = "bg" => procs[p].sigint = "SIG_IGN"
           /\ p \in {bgProcesses[x] : x \in Slots} => procs[p].sigint = "SIG_IGN"

\* the child's own view: it runs in the background when it left SIGINT ignored
InBackground(p) == procs[p].sigint = "SIG_IGN"

\* what a descriptor is bound to under the rule of the claim
Bound(file, background) ==
    IF file # NULL THEN "file" ELSE IF background THEN "/dev/null" ELSE "terminal"

\* C5: the child that runs the current command has its standard input bound
\* to the input file if one was given, else to /dev/null if and only if it
\* runs in the background, else to the shell's standard input; the same for
\* standard output.
C5_Redirection ==
    (pc \in {"parent", "wait"} /\ childPID \in Running) =>
        /\ procs[childPID].stdin = Bound(cmd.inputFile, InBackground(childPID))
        /\ procs[childPID].stdout = Bound(cmd.outputFile, InBackground(childPID))


\* C6: fgFlag starts at 0 and is at every moment the number of SIGTSTP
\* deliveries modulo 2 (so nothing but a delivery changes it and every
\* delivery flips it); every delivery writes one notice, the entering notice
\* when it sets the flag and the exiting notice when it clears it, so the
\* last two notices are always one of each, in the order of the two flips.
C6_ModeFlag ==
    /\ fgFlag = sigLog.n
    /\ sigLog.notices \in
           (IF fgFlag = 1
            THEN {<<EnterMessage>>, <<ExitMessage, EnterMessage>>}
            ELSE {<<>>, <<EnterMessage, ExitMessage>>})

\* two deliveries have happened and the flag is back at its first value
C6_Witness ==
    /\ fgFlag = 0
    /\ sigLog.notices = <<EnterMessage, ExitMessage>>

Occupied == {x \in Slots : bgProcesses[x] # 0}

C7_TableInv ==
    /\ \A x \in Occupied :
           /\ bgProcesses[x] \in DOMAIN procs
           /\ procs[bgProcesses[x]].role = "bg"
    /\ Cardinality({bgProcesses[x] : x \in Occupied}) = Cardinality(Occupied)
    /\ Cardinality(Occupied) <= 50

\* C7: every occupied slot holds the pid of a child that the shell started
\* in the background and has not waited for yet, no pid is in two slots, at
\* most 50 slots are occupied, and the content of an occupied slot changes
\* only to 0 and only in the reap loop, for a process that had ended.
C7_JobTable ==
    /\ []C7_TableInv
    /\ [][\A x \in Occupied :
              bgProcesses'[x] # bgProcesses[x] =>
                  /\ bgProcesses'[x] = 0
                  /\ pc = "prompt" /\ pc' = "read"
                  /\ procs[bgProcesses[x]].st = "zombie"]_vars

\* the reap loop has freed the first slot and left the second occupied
C7_Witness ==
    /\ pc = "read"
    /\ bgProcesses[1] = 0
    /\ bgProcesses[2] # 0
    /\ Len(out) = 2

\* C8: when the parent has printed the ordinary background notice for a
\* child, that child is in the table: a background command that finds the
\* table full is reported as an error and not announced like a tracked job.
C8_CapacityReported ==
    (pc = "prompt" /\ out = <<BackgroundPidMsg(childPID)>>) =>
        childPID \in {bgProcesses[x] : x \in Slots}

\* the report the claim asks for a process with this status
Report(pid, status) ==
    IF \E code \in 0..255 : status = ExitedStatus(code)
    THEN BgExitMsg(pid, CHOOSE code \in 0..255 : status = ExitedStatus(code))
    ELSE BgSignalMsg(pid, status)

\* the slots of the tracked processes that have ended
EndedSlots == {x \in Occupied : bgProcesses[x] \in DOMAIN procs
                                    /\ procs[bgProcesses[x]].st = "zombie"}

\* C9: a prompt is printed only by the step that has run the reap loop; that
\* step reports every tracked process that has ended, once, with its exit
\* value or its signal, frees its slot and waits for it; it leaves the slots
\* and the processes that still run as they are and does not block on them;
\* with an empty table it prints the prompt and changes nothing else.
\* (The reap loop and the prompt that follows it are one step here, so the
\* first prompt after a termination is the first reap loop after it.)
C9_Reap ==
    [][/\ PromptMsg \in Range(out') => (pc = "prompt" /\ pc' = "read")
       /\ (pc = "prompt" /\ pc' = "read") =>
              /\ \A x \in EndedSlots :
                     /\ bgProcesses'[x] = 0
                     /\ bgProcesses[x] \notin DOMAIN procs'
                     /\ Report(bgProcesses[x], procs[bgProcesses[x]].status)
                            \in Range(out')
              /\ \A x \in Slots \ EndedSlots : bgProcesses'[x] = bgProcesses[x]
              /\ \A p \in Running : p \in DOMAIN procs' /\ procs'[p] = procs[p]
              /\ Len(out') = Cardinality(EndedSlots) + 1
              /\ out'[Len(out')] = PromptMsg
              /\ Occupied = {} => (bgProcesses' = bgProcesses /\ procs' = procs)
              /\ UNCHANGED <<fgFlag, exitStatus>>]_vars

\* one prompt has reported a process that exited and one killed by a signal
C9_Witness ==
    /\ pc = "read"
    /\ Len(out) = 3
    /\ \E p, q \in 1..MaxProc, v \in 0..255 :
           /\ out[1] = BgExitMsg(p, v)
           /\ out[2] = BgSignalMsg(q, SIGINT)

C10_ExitInv ==
    (pc = "done" /\ childPID # -1) =>
        /\ shellExit = EXIT_SUCCESS
        /\ \A x \in Occupied :
               /\ bgProcesses[x] \in killSent
               /\ bgProcesses[x] \in DOMAIN procs
               /\ procs[bgProcesses[x]].st = "zombie"

\* C10: when the shell has ended without a failed fork (that is, by "exit"),
\* its exit code is 0 and every pid in the table has been sent SIGKILL and
\* has not been waited for; once it has ended the shell takes no further step.
C10_Exit ==
    /\ []C10_ExitInv
    /\ [][pc # "done"]_vars

\* "exit" with two tracked background processes
C10_Witness ==
    /\ pc = "done"
    /\ shellExit = EXIT_SUCCESS
    /\ Cardinality(Occupied) = 2
    /\ killSent = {bgProcesses[x] : x \in Occupied}

\* the report the status built-in owes for a wait status
StatusReport(status) ==
    IF \E code \in 0..255 : status = ExitedStatus(code)
    THEN ExitValueMsg(CHOOSE code \in 0..255 : status = ExitedStatus(code))
    ELSE TerminatedMsg(status)

\* C11: when the user's line is "status", the shell prints the status of the
\* foreground child that ended last: "exit value N" with its exit code, or
\* "terminated by signal N" with the signal that killed it; "exit value 0"
\* when no foreground child has ended yet.
C11_StatusBuiltin ==
    [][(pc = "read" /\ userInput' = <<W_status>>) =>
          out' = <<StatusReport(lastFg)>>]_vars

\* the last call the child of the step just taken made, when it made one
LastCall == childCalls[Len(childCalls)]

\* the child just forked has ended because it could not open a file
OpenFailed ==
    /\ pc = "parent"
    /\ childCalls # <<>>
    /\ LastCall.call = "open"
    /\ ~LastCall.ok

\* C12: a child that ends because it cannot open a redirection file has a
\* nonzero exit status, and one that differs from the status the child of
\* the same command has when its files open and execvp fails.
C12_DistinctFailureStatus ==
    OpenFailed =>
        /\ WIFEXITED(procs[childPID].status)
        /\ WEXITSTATUS(procs[childPID].status) # 0
        /\ procs[childPID].status #
               ChildAfterSetup(cmd, fgFlag, TRUE, TRUE, FALSE).status

\* the tokens of the line read, as the code stores them
Tokens == ExpandTokens(Tokenize(userInput[1]))

\* the positions of the recognised operators among the tokens: "<", ">",
\* and "&" as last token
Operators ==
    {k \in 1..Len(Tokens) :
        Tokens[k] \in {W_lt, W_gt} \/ (Tokens[k] = W_amp /\ k = Len(Tokens))}

\* the tokens before the first recognised operator
BeforeOperators ==
    SubSeq(Tokens, 1, IF Operators = {} THEN Len(Tokens)
                      ELSE (CHOOSE k \in Operators : \A j \in Operators : k <= j) - 1)

\* C13: when getCommandLineArguments has returned, the exec vector is the
\* tokens of the line that come before its first recognised operator ("<",
\* ">", or "&" as last token), at whatever position that operator is.
C13_ExecVector ==
    pc = "parsed" => cmd.args = BeforeOperators

\* every "$$" of a token replaced by the digits of the shell's pid, from left
\* to right, and nothing else changed
RECURSIVE ExpandAll(_)
ExpandAll(tok) ==
    IF Len(tok) < 2 THEN tok
    ELSE IF tok[1] = "$" /\ tok[2] = "$"
         THEN ShellPidDigits \o ExpandAll(SubSeq(tok, 3, Len(tok)))
         ELSE <<tok[1]>> \o ExpandAll(Tail(tok))

\* C14: when getCommandLineArguments has returned, every token it stored
\* (the first one included) is the token of the line at the same position
\* with each "$$" replaced by the shell's pid and no other character changed.
C14_PidExpansion ==
    pc = "parsed" =>
        \A k \in 1..Len(cmd.args) :
            cmd.args[k] = ExpandAll(Tokenize(userInput[1])[k])

\* fgets has read a line with no character, or one that starts with "#"
ReadsNoOp ==
    /\ pc = "read"
    /\ userInput' # <<>>
    /\ LET line == userInput'[1]
       IN  Len(line) = 0 \/ line[1] = "#"

\* C15: a step in which the shell reads an empty line or a line starting
\* with "#" creates no process, prints nothing, changes neither the recorded
\* status, the mode flag, the job table, the directory nor the command held,
\* does not end the shell, and leaves the shell at the top of the input loop,
\* where the reap loop and the prompt come next.
C15_NoOpLine ==
    [][ReadsNoOp =>
          /\ pc' = "prompt"
          /\ out' = <<>>
          /\ childCalls' = <<>>
          /\ UNCHANGED <<procs, exitStatus, fgFlag, bgProcesses, cwd, cmd,
                         childPID, shellExit, killSent, sigLog>>]_vars

\* a comment line has been read while a child runs and the flag is set
C15_Witness ==
    /\ pc = "prompt"
    /\ userInput = << <<"#", "c">> >>
    /\ fgFlag = 1
    /\ \E p \in DOMAIN procs : procs[p].st = "running"

\* C16: when getCommandLineArguments has returned, the background flag is
\* set if and only if the last token of the line is "&"; an "&" that is not
\* the last token and has no redirection operator before it is in the exec
\* vector at its position, as an argument.
C16_BackgroundMarker ==
    pc = "parsed" =>
        /\ cmd.bgFlag = 1 <=> Tokens[Len(Tokens)] = W_amp
        /\ \A k \in 1..(Len(Tokens) - 1) :
               (Tokens[k] = W_amp /\ \A j \in 1..(k - 1) : Tokens[j] \notin {W_lt, W_gt})
                   => (Len(cmd.args) >= k /\ cmd.args[k] = W_amp)

\* "ls & f" has been parsed: no background request, "&" is an argument
C16_Witness ==
    /\ pc = "parsed"
    /\ cmd.args = <<W_ls, W_amp, W_f>>
    /\ cmd.bgFlag = 0

\* one scan in which the token after "<" or ">" is taken as the path and
\* skipped: the files and the background request it finds from token k on
RECURSIVE ScanOnce(_, _, _)
ScanOnce(toks, k, found) ==
    IF k > Len(toks) THEN found
    ELSE IF toks[k] = W_lt /\ k < Len(toks)
         THEN ScanOnce(toks, k + 2, [found EXCEPT !.inputFile = toks[k + 1]])
    ELSE IF toks[k] = W_gt /\ k < Len(toks)
         THEN ScanOnce(toks, k + 2, [found EXCEPT !.outputFile = toks[k + 1]])
    ELSE IF toks[k] = W_amp /\ k = Len(toks)
         THEN [found EXCEPT !.bgFlag = 1]
    ELSE ScanOnce(toks, k + 1, found)

\* C17: when getCommandLineArguments has returned, the input file, the
\* output file and the background request are those of a scan that takes
\* the token after "<" or ">" as a path only and does not look at it again.
C17_PathNotRescanned ==
    pc = "parsed" =>
        LET found == ScanOnce(Tokens, 1,
                         [inputFile |-> NULL, outputFile |-> NULL, bgFlag |-> 0])
        IN  /\ cmd.inputFile = found.inputFile
            /\ cmd.outputFile = found.outputFile
            /\ cmd.bgFlag = found.bgFlag

\* C18: a step that forks a child which cannot open a redirection file: the
\* child has ended with a nonzero exit status; the failed open is its last
\* call, so after a failed open of the input file there is no open of the
\* output file and no execvp, and after a failed open of the output file no
\* execvp; the job table and the recorded status are as before, the mode
\* flag too unless SIGTSTP was delivered in the step, and the other children
\* are untouched.
C18_OpenFailure ==
    [][(pc = "read" /\ OpenFailed') =>
          /\ procs'[childPID'].st = "zombie"
          /\ WIFEXITED(procs'[childPID'].status)
          /\ WEXITSTATUS(procs'[childPID'].status) # 0
          /\ \A i \in 1..(Len(childCalls') - 1) :
                 /\ childCalls'[i].ok
                 /\ childCalls'[i].fd = 0
          /\ \A i \in 1..Len(childCalls') : childCalls'[i].call = "open"
          /\ bgProcesses' = bgProcesses
          /\ exitStatus' = exitStatus
          /\ sigLog' = sigLog => fgFlag' = fgFlag
          /\ \A p \in DOMAIN procs : procs'[p] = procs[p]]_vars

\* the output file could not be opened, the input file could, while a
\* background job is in the table
C18_Witness ==
    /\ OpenFailed
    /\ LastCall.fd = 1
    /\ Len(childCalls) = 2
    /\ \E x \in Slots : bgProcesses[x] # 0

\* C19: a step in which fork fails (it returns -1): the shell prints the
\* failure and ends at once with a nonzero exit code; it puts nothing in the
\* job table, records no status, creates no process and prints no prompt;
\* and the shell that has ended takes no further step.
C19_ForkFailure ==
    [][/\ pc # "done"
       /\ (childPID' = -1 /\ childPID # -1) =>
              /\ pc = "read"
              /\ pc' = "done"
              /\ shellExit' > 0
              /\ ForkFailedMsg \in Range(out')
              /\ PromptMsg \notin Range(out')
              /\ UNCHANGED <<bgProcesses, exitStatus, procs, killSent>>]_vars

\* fork has failed while a background job was in the table
C19_Witness ==
    /\ pc = "done"
    /\ childPID = -1
    /\ shellExit = 1
    /\ \E x \in Slots : bgProcesses[x] # 0
    /\ killSent = {}

\* C20: the recorded status changes only in a step in which waitpid returns
\* the foreground child that has ended, and then to that child's status; no
\* other step (starting a background command, the reap loop, cd, status, a
\* SIGTSTP delivery) changes it, and when the user's line is "status" the
\* shell prints the recorded status.
C20_StatusFrame ==
    [][/\ exitStatus' # exitStatus =>
              /\ pc = "wait"
              /\ childPID \in DOMAIN procs
              /\ procs[childPID].st = "zombie"
              /\ procs[childPID].role = "fg"
              /\ exitStatus' = procs[childPID].status
       /\ (pc = "read" /\ userInput' = <<W_status>>) =>
              /\ out' = <<StatusReport(exitStatus)>>
              /\ exitStatus' = exitStatus]_vars

\* "status" tells of the foreground child killed by SIGINT while a
\* background job is in the table and the mode flag is set
C20_Witness ==
    /\ userInput = <<W_status>>
    /\ out = <<TerminatedMsg(SIGINT)>>
    /\ fgFlag = 1
    /\ \E x \in Slots : bgProcesses[x] # 0

====
